---- MODULE Spec2Model ----
(***************************************************************************)
(* Model of src/tcp_options.rs: the routine `apply`, which enacts a        *)
(* TcpOptions record against the operating-system socket behind a          *)
(* TcpStream (Linux build, so the SO_MARK block is compiled in).           *)
(*                                                                         *)
(* One action per OS call of `apply`, in program order, plus the call of   *)
(* `apply` itself.  The socket is the environment: its option values are   *)
(* the variable `os`, and whether a given OS call on it succeeds is not    *)
(* decided by the routine, so every call draws its answer from the answers *)
(* the socket can give.                                                    *)
(***************************************************************************)
EXTENDS Integers, Sequences, FiniteSets

VARIABLES
    options,    \* the TcpOptions borrowed by apply
    sockOpen,   \* whether the descriptor behind tcp_stream is a live socket
    os,         \* the socket's option values inside the OS
    osAnswer,   \* what the OS answers to each call on this socket, once known
    pc,         \* position inside apply
    calls,      \* OS calls issued by the current invocation, in order
    log,        \* log::debug! lines emitted by the current invocation
    result,     \* value returned by the current invocation
    run,        \* number of invocations of apply so far
    os0,        \* os when the current invocation started
    prev        \* result and os at the end of the previous invocation

vars == <<options, sockOpen, os, osAnswer, pc, calls, log, result, run, os0, prev>>

----------------------------------------------------------------------------
\* Bounds of the model.

\* Largest buffer size a caller requests (recv_buffer_size, send_buffer_size).
MaxSize == 3
\* Largest firewall mark a caller requests.
MaxMark == 1
\* Largest buffer size the kernel grants (twice its rmem_max / wmem_max).
BufCeiling == 5
\* Buffer size of a freshly connected socket.
DefaultBuf == 1
\* Number of times the caller invokes apply on one socket.
MaxRuns == 2

----------------------------------------------------------------------------
\* Data.

\* Option<T>: None is the empty sequence, Some(v) the sequence holding v.
None == <<>>
Some(v) == <<v>>
Unwrap(o) == o[1]
Option(S) == {None} \cup {Some(v) : v \in S}

\* struct TcpOptions
TcpOptions ==
    [nodelay : BOOLEAN,
     recv_buffer_size : Option(1..MaxSize),
     send_buffer_size : Option(1..MaxSize),
     fwmark : Option(0..MaxMark)]

\* The OS calls apply can issue.
OsCalls ==
    {"set_nodelay", "nodelay",
     "set_recv_buffer_size", "recv_buffer_size",
     "set_send_buffer_size", "send_buffer_size",
     "setsockopt_Mark", "getsockopt_Mark"}

\* Errors a call on an open socket can produce, and the one a closed or
\* invalid descriptor produces for every call.
OpenErrors == {"EINVAL", "EPERM"}
ClosedError == "EBADF"

\* Ok(())
Ok == [kind |-> "Ok"]

\* No value returned yet.
Pending == [kind |-> "Pending"]

\* enum ApplyTcpOptionsError: the variant wrapping the error e.
ApplyTcpOptionsError(variant, e) == [kind |-> variant, err |-> e]

Min(a, b) == IF a < b THEN a ELSE b

----------------------------------------------------------------------------
\* The socket.

\* Answers the socket can give to call c: a closed descriptor refuses every
\* call; an open socket answers a call the same way each time it is made
\* with the same arguments.
Answers(c) ==
    IF ~sockOpen THEN {ClosedError}
    ELSE IF osAnswer[c] # "unknown" THEN {osAnswer[c]}
    ELSE {"ok"} \cup OpenErrors

\* TCP_NODELAY after a successful set_nodelay(req) on a socket holding cur.
SetNoDelayOnlyIfTrue(cur, req) == IF req THEN TRUE ELSE cur
SetNoDelay(cur, req) == req

\* SO_RCVBUF / SO_SNDBUF after a successful set of v on a socket holding
\* cur: the kernel doubles the request and caps it.
SetBufferSizeGrow(cur, v) == Min(cur + 2 * v, BufCeiling)
SetBufferSize(cur, v) == Min(2 * v, BufCeiling)

\* SO_MARK after a successful setsockopt(fd, Mark, m).
SetMark(cur, m) == m

----------------------------------------------------------------------------
\* apply.

\* The `?` after map_err: on Err the routine returns, on Ok it goes on.
TrySwallow(answer, next) == next
TryIgnoreReadBack(answer, next) ==
    IF answer = "ok" \/ next \in {"set_recv_buffer_size", "set_send_buffer_size", "setsockopt_Mark"}
      THEN next ELSE "done"
Try(answer, next) == IF answer = "ok" THEN next ELSE "done"

\* `if let Some(..) = field { set }` with field absent: control falls
\* through to the read-back `get`, which precedes the step `after`.
FallThroughPastGet(get, after) == after
FallThrough(get, after) == get

\* Returning early through `?` undoes nothing: the socket keeps what the
\* calls made so far gave it (cur), not what it held at entry (start).
UnwindRollback(cur, start) == start
Unwind(cur, start) == cur

\* map_err: the variant each call's error is wrapped in.
FamilyCopyPaste(c) ==
    CASE c \in {"set_nodelay", "nodelay"} -> "NoDelay"
      [] c \in {"set_recv_buffer_size", "recv_buffer_size", "send_buffer_size"} -> "RecvBuffer"
      [] c \in {"set_send_buffer_size"} -> "SendBuffer"
      [] c \in {"setsockopt_Mark", "getsockopt_Mark"} -> "Mark"
Family(c) ==
    CASE c \in {"set_nodelay", "nodelay"} -> "NoDelay"
      [] c \in {"set_recv_buffer_size", "recv_buffer_size"} -> "RecvBuffer"
      [] c \in {"set_send_buffer_size", "send_buffer_size"} -> "SendBuffer"
      [] c \in {"setsockopt_Mark", "getsockopt_Mark"} -> "Mark"

\* One OS call c with argument arg, issued at position pc = at.  On success
\* the socket holds newOs, the lines newLog are logged and control moves to
\* next; reaching the end of the routine returns Ok(()).
OsCall(at, c, arg, newOs, newLog, next) ==
    /\ pc = at
    /\ \E answer \in Answers(c) :
        /\ osAnswer' = [osAnswer EXCEPT ![c] = answer]
        /\ calls' = Append(calls, [call |-> c, arg |-> arg])
        /\ pc' = Try(answer, next)
        /\ IF answer = "ok"
             THEN /\ os' = newOs
                  /\ log' = log \o newLog
                  /\ result' = IF pc' = "done" THEN Ok ELSE result
             ELSE /\ os' = Unwind(os, os0)
                  /\ log' = log
                  /\ result' = IF pc' = "done"
                                 THEN ApplyTcpOptionsError(Family(c), answer)
                                 ELSE result
    /\ UNCHANGED <<options, sockOpen, run, os0, prev>>

\* An absent optional field: no call is made.
Skip(at, next) ==
    /\ pc = at
    /\ pc' = next
    /\ UNCHANGED <<options, sockOpen, os, osAnswer, calls, log, result, run, os0, prev>>

\* The caller invokes apply(tcp_stream, options).
apply ==
    /\ pc \in {"idle", "done"}
    /\ run < MaxRuns
    /\ run' = run + 1
    /\ pc' = "set_nodelay"
    /\ calls' = <<>>
    /\ log' = <<>>
    /\ result' = Pending
    /\ os0' = os
    /\ prev' = [result |-> result, os |-> os]
    /\ UNCHANGED <<options, sockOpen, os, osAnswer>>

set_nodelay ==
    OsCall("set_nodelay", "set_nodelay", Some(options.nodelay),
           [os EXCEPT !.nodelay = SetNoDelay(os.nodelay, options.nodelay)],
           <<>>, "nodelay")

nodelay ==
    OsCall("nodelay", "nodelay", None, os,
           << <<"TCP_NODELAY", os.nodelay>> >>, "set_recv_buffer_size")

set_recv_buffer_size ==
    \/ /\ options.recv_buffer_size # None
       /\ OsCall("set_recv_buffer_size", "set_recv_buffer_size",
                 options.recv_buffer_size,
                 [os EXCEPT !.rcvbuf =
                     SetBufferSize(os.rcvbuf, Unwrap(options.recv_buffer_size))],
                 <<>>, "recv_buffer_size")
    \/ /\ options.recv_buffer_size = None
       /\ Skip("set_recv_buffer_size",
               FallThrough("recv_buffer_size", "set_send_buffer_size"))

recv_buffer_size ==
    OsCall("recv_buffer_size", "recv_buffer_size", None, os,
           << <<"SO_RCVBUF", os.rcvbuf>> >>, "set_send_buffer_size")

set_send_buffer_size ==
    \/ /\ options.send_buffer_size # None
       /\ OsCall("set_send_buffer_size", "set_send_buffer_size",
                 options.send_buffer_size,
                 [os EXCEPT !.sndbuf =
                     SetBufferSize(os.sndbuf, Unwrap(options.send_buffer_size))],
                 <<>>, "send_buffer_size")
    \/ /\ options.send_buffer_size = None
       /\ Skip("set_send_buffer_size",
               FallThrough("send_buffer_size", "setsockopt_Mark"))

send_buffer_size ==
    OsCall("send_buffer_size", "send_buffer_size", None, os,
           << <<"SO_SNDBUF", os.sndbuf>> >>, "setsockopt_Mark")

setsockopt_Mark ==
    \/ /\ options.fwmark # None
       /\ OsCall("setsockopt_Mark", "setsockopt_Mark", options.fwmark,
                 [os EXCEPT !.mark = SetMark(os.mark, Unwrap(options.fwmark))],
                 <<>>, "getsockopt_Mark")
    \/ /\ options.fwmark = None
       /\ Skip("setsockopt_Mark", FallThrough("getsockopt_Mark", "done"))

getsockopt_Mark ==
    OsCall("getsockopt_Mark", "getsockopt_Mark", None, os,
           << <<"SO_MARK", os.mark>> >>, "done")

----------------------------------------------------------------------------

Init ==
    /\ options \in TcpOptions
    /\ sockOpen \in BOOLEAN
    /\ os \in [nodelay : BOOLEAN, rcvbuf : {DefaultBuf}, sndbuf : {DefaultBuf}, mark : {0}]
    /\ osAnswer = [c \in OsCalls |-> "unknown"]
    /\ pc = "idle"
    /\ calls = <<>>
    /\ log = <<>>
    /\ result = Pending
    /\ run = 0
    /\ os0 = os
    /\ prev = [result |-> Pending, os |-> os]

\* The steps of one invocation.
Step ==
    \/ set_nodelay
    \/ nodelay
    \/ set_recv_buffer_size
    \/ recv_buffer_size
    \/ set_send_buffer_size
    \/ send_buffer_size
    \/ setsockopt_Mark
    \/ getsockopt_Mark

Next ==
    \/ apply
    \/ set_nodelay
    \/ nodelay
    \/ set_recv_buffer_size
    \/ recv_buffer_size
    \/ set_send_buffer_size
    \/ send_buffer_size
    \/ setsockopt_Mark
    \/ getsockopt_Mark

Spec == Init /\ [][Next]_vars

\* apply is synchronous straight-line code and every OS call returns: once
\* invoked, the routine keeps taking its next step.
FairSpec == Spec /\ WF_vars(Step)

----------------------------------------------------------------------------
\* Vocabulary of the properties.

\* The fixed order of the OS calls in the text of apply.
CallOrder ==
    <<"set_nodelay", "nodelay",
      "set_recv_buffer_size", "recv_buffer_size",
      "set_send_buffer_size", "send_buffer_size",
      "setsockopt_Mark", "getsockopt_Mark">>

Pos(c) == CHOOSE i \in 1..Len(CallOrder) : CallOrder[i] = c

Idx == 1..Len(calls)
Issued(c) == \E i \in Idx : calls[i].call = c
Succeeded(c) == Issued(c) /\ osAnswer[c] = "ok"
Refused(c) == Issued(c) /\ osAnswer[c] # "ok"

Returned == pc = "done"
Running == pc \notin {"idle", "done"}
ErrorKinds == {"NoDelay", "RecvBuffer", "SendBuffer", "Mark"}
Failed == Returned /\ result.kind \in ErrorKinds

\* The three optional fields with their set call, read-back call, OS value
\* and the position that follows the read-back.
Optional ==
    {[field |-> "recv_buffer_size", set |-> "set_recv_buffer_size",
      get |-> "recv_buffer_size", value |-> "rcvbuf", kind |-> "RecvBuffer"],
     [field |-> "send_buffer_size", set |-> "set_send_buffer_size",
      get |-> "send_buffer_size", value |-> "sndbuf", kind |-> "SendBuffer"],
     [field |-> "fwmark", set |-> "setsockopt_Mark",
      get |-> "getsockopt_Mark", value |-> "mark", kind |-> "Mark"]}

\* The invocation got past the read-back of optional field o.
PastReadBack(o) ==
    \/ Returned /\ result = Ok
    \/ \E i \in Idx : Pos(calls[i].call) > Pos(o.get)

\* The size the kernel holds after granting a request of v bytes.
Granted(v) == IF 2 * v > BufCeiling THEN BufCeiling ELSE 2 * v

NumRequested ==
    Cardinality({o \in Optional : options[o.field] # None})

----------------------------------------------------------------------------
\* C1: the OS calls are issued in the fixed order no-delay (set, get),
\* receive buffer (set, get), send buffer (set, get), mark (set, get), and
\* no call is issued after the first call that failed.
C1_OrderedStopAtFirstFailure ==
    /\ \A i, j \in Idx : i < j => Pos(calls[i].call) < Pos(calls[j].call)
    /\ \A i \in Idx : osAnswer[calls[i].call] # "ok" => i = Len(calls)
    /\ calls # <<>> => calls[1].call = "set_nodelay"
    /\ Len(calls) >= 2 => calls[2].call = "nodelay"

\* A read-back in the middle of the sequence failed and apply has returned.
C1_Witness ==
    /\ sockOpen /\ Returned
    /\ Refused("recv_buffer_size")
    /\ options.send_buffer_size # None /\ options.fwmark # None

\* C2: a failure returned by apply carries the option family of the first
\* OS call that failed, a set or a read-back alike, and wraps the error
\* that call produced.
C2_KindOfFirstFailingCall ==
    Failed =>
        /\ calls # <<>>
        /\ \A i \in 1..(Len(calls) - 1) : osAnswer[calls[i].call] = "ok"
        /\ LET c == calls[Len(calls)].call IN
            /\ osAnswer[c] # "ok"
            /\ result.err = osAnswer[c]
            /\ c \in {"set_nodelay", "nodelay"} => result.kind = "NoDelay"
            /\ c \in {"set_recv_buffer_size", "recv_buffer_size"} => result.kind = "RecvBuffer"
            /\ c \in {"set_send_buffer_size", "send_buffer_size"} => result.kind = "SendBuffer"
            /\ c \in {"setsockopt_Mark", "getsockopt_Mark"} => result.kind = "Mark"

\* The send-buffer read-back failed after six successful calls.
C2_Witness ==
    /\ Failed /\ result = ApplyTcpOptionsError("SendBuffer", "EPERM")
    /\ Refused("send_buffer_size") /\ Len(calls) = 6

\* C3: apply returns Ok exactly when every OS call it issued succeeded, the
\* read-backs included; otherwise it returns one of the four failures.
C3_OkIffAllCallsSucceed ==
    Returned =>
        /\ result = Ok <=> \A i \in Idx : osAnswer[calls[i].call] = "ok"
        /\ result # Ok => result.kind \in ErrorKinds /\ result.err # "ok"

\* A run in which all eight calls were issued and succeeded.
C3_Witness ==
    Returned /\ result = Ok /\ Len(calls) = 8

C5_ClosedSocketFailsAtNoDelay ==
    ~sockOpen =>
        /\ Len(calls) <= 1
        /\ \A i \in Idx :
             calls[i].call = "set_nodelay" /\ calls[i].arg = Some(options.nodelay)
        /\ Returned => result = ApplyTcpOptionsError("NoDelay", ClosedError)
        /\ run > 0 => os = os0

\* apply has returned on a closed socket with every optional field given.
C5_Witness ==
    /\ ~sockOpen /\ Returned
    /\ options.recv_buffer_size # None
    /\ options.send_buffer_size # None
    /\ options.fwmark # None

\* C6: no rollback: when apply returns a failure, every option whose set
\* call succeeded earlier still holds the value that call gave it.
C6_NoRollback ==
    Failed =>
        /\ Succeeded("set_nodelay") => os.nodelay = options.nodelay
        /\ Succeeded("set_recv_buffer_size") =>
             os.rcvbuf = Granted(Unwrap(options.recv_buffer_size))
        /\ Succeeded("set_send_buffer_size") =>
             os.sndbuf = Granted(Unwrap(options.send_buffer_size))
        /\ Succeeded("setsockopt_Mark") => os.mark = Unwrap(options.fwmark)

\* Only the mark step failed, after no-delay and both buffers were changed.
C6_Witness ==
    /\ Failed /\ result.kind = "Mark" /\ Refused("setsockopt_Mark")
    /\ os.nodelay # os0.nodelay
    /\ os.rcvbuf # os0.rcvbuf
    /\ os.sndbuf # os0.sndbuf

C8_ExactValuesApplied ==
    /\ calls # <<>> =>
         calls[1].call = "set_nodelay" /\ calls[1].arg = Some(options.nodelay)
    /\ (Returned /\ result = Ok) =>
        /\ os.nodelay = options.nodelay
        /\ log[1] = <<"TCP_NODELAY", options.nodelay>>
        /\ options.fwmark # None =>
            /\ os.mark = Unwrap(options.fwmark)
            /\ log[Len(log)] = <<"SO_MARK", Unwrap(options.fwmark)>>

\* No-delay switched off on a socket that had it on, and a mark requested.
C8_Witness ==
    /\ Returned /\ result = Ok /\ run = 1
    /\ os0.nodelay /\ ~options.nodelay
    /\ options.fwmark = Some(1)

\* C9: a failing read-back of an option that was not requested aborts the
\* sequence with that option's failure kind, and no later call is issued.
C9_UnrequestedReadBackAborts ==
    \A o \in Optional :
        (options[o.field] = None /\ Refused(o.get)) =>
            /\ Returned
            /\ result.kind = o.kind
            /\ \A i \in Idx : Pos(calls[i].call) <= Pos(o.get)

\* The receive-buffer read-back failed although nothing but no-delay was
\* requested before it and the later options were requested.
C9_Witness ==
    /\ options.recv_buffer_size = None /\ Refused("recv_buffer_size")
    /\ options.send_buffer_size # None /\ options.fwmark # None
    /\ result.kind = "RecvBuffer" /\ Len(calls) = 3

\* Every call is issued at most once per invocation, a successful run makes
\* set_nodelay, the four read-backs and one set per requested option, and a
\* failed read-back logs no value.
CallBudget ==
    /\ \A i, j \in Idx : calls[i].call = calls[j].call => i = j
    /\ Len(calls) <= 8
    /\ (Returned /\ result = Ok) =>
        /\ Len(calls) = 5 + NumRequested
        /\ Len(calls) \in 5..8
        /\ Len(log) = 4
    /\ Len(log) = Cardinality({c \in {"nodelay", "recv_buffer_size",
                                      "send_buffer_size", "getsockopt_Mark"} :
                                 Succeeded(c)})

====
